---- MODULE Spec2Model ----
(***************************************************************************)
(* A model of the Markov chain of src/src/lib.rs: the transition table     *)
(* (Chain::map), feeding, the random walk of generate and                  *)
(* generate_from_token, and the sized and infinite iterators.              *)
(*                                                                         *)
(* A state of the chain is an Option<Rc<T>>: None is the empty tuple and   *)
(* Some(t) is the one-element tuple <<t>>.  A HashMap is a function whose  *)
(* domain is its key set.                                                  *)
(***************************************************************************)
EXTENDS Integers, Sequences, FiniteSets, TLC

VARIABLES map, history, pc, op, arg, curs, ret, result, iter, size, n0, yielded

vars == <<map, history, pc, op, arg, curs, ret, result, iter, size, n0, yielded>>

(* ---------------------------- bounds ----------------------------------- *)
MaxToken == 2     \* tokens 1..MaxToken are fed in every combination
MaxLen == 3       \* longest sequence fed
MaxFeeds == 2     \* number of feed calls in one run
MaxRet == 4       \* longest walk followed
MaxN == 2         \* largest count given to iter_for
MaxPulls == 2     \* pulls made on one infinite iterator

(* ---------------------------- values ----------------------------------- *)
None == <<>>
Some(t) == <<t>>
unwrap(s) == s[1]

\* the vectors of the tests of lib.rs (test::generate and its neighbours)
TestInputs == {<<3, 5, 10>>, <<5, 12>>}
TestTokens == {3, 5, 9, 10, 12}

Tokens == (1..MaxToken) \cup TestTokens
SeqsUpTo(S, n) == UNION {[1..k -> S] : k \in 0..n}
Inputs == SeqsUpTo(1..MaxToken, MaxLen) \cup TestInputs

EmptyMap == <<>>

(* ---------------------------- Chain::new ------------------------------- *)
new == None :> EmptyMap

(* ---------------------------- States::add ------------------------------ *)
\* add with the Occupied arm storing 1 instead of incrementing
add_reset(dist, token) ==
    IF token \in DOMAIN dist
    THEN [dist EXCEPT ![token] = 1]
    ELSE dist @@ (token :> 1)

\* add with the Vacant arm storing 0
add_zero(dist, token) ==
    IF token \in DOMAIN dist
    THEN [dist EXCEPT ![token] = @ + 1]
    ELSE dist @@ (token :> 0)

add(dist, token) ==
    IF token \in DOMAIN dist
    THEN [dist EXCEPT ![token] = @ + 1]
    ELSE dist @@ (token :> 1)

(* ---------------------------- Chain::feed ------------------------------ *)
\* the closure registering the first token only
RECURSIVE register_first(_, _, _)
register_first(m, tokens, i) ==
    IF i > Len(tokens) \/ i > 1 THEN m
    ELSE register_first(IF Some(tokens[i]) \in DOMAIN m THEN m
                        ELSE m @@ (Some(tokens[i]) :> EmptyMap),
                        tokens, i + 1)

\* the closure inserting a new HashMap without the contains_key test
RECURSIVE register_overwrite(_, _, _)
register_overwrite(m, tokens, i) ==
    IF i > Len(tokens) THEN m
    ELSE register_overwrite([k \in DOMAIN m \cup {Some(tokens[i])} |->
                                IF k = Some(tokens[i]) THEN EmptyMap ELSE m[k]],
                            tokens, i + 1)

\* the closure of toks.extend: every token is registered as it is consumed
RECURSIVE register(_, _, _)
register(m, tokens, i) ==
    IF i > Len(tokens) THEN m
    ELSE register(IF Some(tokens[i]) \in DOMAIN m THEN m
                  ELSE m @@ (Some(tokens[i]) :> EmptyMap),
                  tokens, i + 1)

\* the window loop with the two ends of the pair exchanged
RECURSIVE windows_swapped(_, _, _)
windows_swapped(m, toks, i) ==
    IF i + 1 > Len(toks) THEN m
    ELSE windows_swapped([m EXCEPT ![toks[i + 1]] = add(@, toks[i])], toks, i + 1)

\* the window loop leaving out the last pair
RECURSIVE windows_short(_, _, _)
windows_short(m, toks, i) ==
    IF i + 2 > Len(toks) THEN m
    ELSE IF toks[i] \notin DOMAIN m THEN m
    ELSE windows_short([m EXCEPT ![toks[i]] = add(@, toks[i + 1])], toks, i + 1)

\* for p in toks.windows(2) { map[p[0]].add(p[1]) }; the index map[p[0]]
\* panics on a key without an entry and the loop ends there
RECURSIVE windows(_, _, _)
windows(m, toks, i) ==
    IF i + 1 > Len(toks) THEN m
    ELSE IF toks[i] \notin DOMAIN m THEN m
    ELSE windows([m EXCEPT ![toks[i]] = add(@, toks[i + 1])], toks, i + 1)

\* feed without the closing toks.push(None)
feed_no_end(m, tokens) ==
    IF Len(tokens) = 0 THEN m
    ELSE LET toks == <<None>> \o [i \in 1..Len(tokens) |-> Some(tokens[i])]
         IN  windows(register(m, tokens, 1), toks, 1)

\* feed without the early return on an empty vector
feed_noguard(m, tokens) ==
    LET toks == <<None>> \o [i \in 1..Len(tokens) |-> Some(tokens[i])] \o <<None>>
    IN  windows(register(m, tokens, 1), toks, 1)

feed(m, tokens) ==
    IF Len(tokens) = 0 THEN m
    ELSE LET toks == <<None>> \o [i \in 1..Len(tokens) |-> Some(tokens[i])] \o <<None>>
         IN  windows(register(m, tokens, 1), toks, 1)

\* some map[p[0]] of the window loop finds no entry
feed_panics(m, tokens) ==
    /\ Len(tokens) # 0
    /\ \E i \in 0..Len(tokens) :
          (IF i = 0 THEN None ELSE Some(tokens[i])) \notin DOMAIN register(m, tokens, 1)

(* ---------------------------- Chain::is_empty -------------------------- *)
\* is_empty asking the table, not the sentinel's distribution
is_empty_map(m) == DOMAIN m = {}

is_empty(m) == DOMAIN m[None] = {}

(* ---------------------------- state machine ---------------------------- *)
NoResult == <<"unit">>

Init ==
    /\ map = new
    /\ history = <<>>
    /\ pc = "ready"
    /\ op = "new"
    /\ arg = <<>>
    /\ curs = None
    /\ ret = <<>>
    /\ result = NoResult
    /\ iter = "none"
    /\ size = 0
    /\ n0 = 0
    /\ yielded = 0

\* feed needs &mut self: no iterator may be alive
Feed(tokens) ==
    /\ pc = "ready"
    /\ iter = "none"
    /\ Len(history) < MaxFeeds
    /\ map' = feed(map, tokens)
    /\ history' = Append(history, tokens)
    /\ op' = "feed"
    /\ arg' = tokens
    /\ IF feed_panics(map, tokens)
       THEN pc' = "panic" /\ result' = <<"panic", "index">>
       ELSE pc' = pc /\ result' = NoResult
    /\ UNCHANGED <<curs, ret, iter, size, n0, yielded>>

IsEmpty ==
    /\ pc = "ready"
    /\ op' = "is_empty"
    /\ arg' = <<>>
    /\ result' = <<"bool", is_empty(map)>>
    /\ UNCHANGED <<map, history, pc, curs, ret, iter, size, n0, yielded>>

(* ---------------------------- States::next ---------------------------- *)
\* for &value in self.values() { sum += value }
RECURSIVE total(_)
total(dist) ==
    IF DOMAIN dist = {} THEN 0
    ELSE LET k == CHOOSE x \in DOMAIN dist : TRUE
         IN  dist[k] + total([y \in DOMAIN dist \ {k} |-> dist[y]])

\* the orders in which a HashMap may hand out its keys
Orders(S) == {o \in [1..Cardinality(S) -> S] : \A i, j \in 1..Cardinality(S) : o[i] = o[j] => i = j}

\* rng.gen_range(0, sum): the draws it can return
gen_range(low, high) == low..(high - 1)

\* the scan with the comparison sum >= cap
RECURSIVE scan_ge(_, _, _, _, _)
scan_ge(dist, order, cap, i, sum) ==
    IF i > Len(order) THEN [found |-> FALSE, key |-> None]
    ELSE LET s == sum + dist[order[i]]
         IN  IF s >= cap THEN [found |-> TRUE, key |-> order[i]]
             ELSE scan_ge(dist, order, cap, i + 1, s)

\* the second loop of next: the first key whose running sum exceeds cap;
\* found is FALSE where the loop ends and unreachable!() is hit
RECURSIVE scan(_, _, _, _, _)
scan(dist, order, cap, i, sum) ==
    IF i > Len(order) THEN [found |-> FALSE, key |-> None]
    ELSE LET s == sum + dist[order[i]]
         IN  IF s > cap THEN [found |-> TRUE, key |-> order[i]]
             ELSE scan(dist, order, cap, i + 1, s)

next(dist, order, cap) == scan(dist, order, cap, 1, 0)

(* ---------------------------- the walk --------------------------------- *)
Panic(msg) ==
    /\ pc' = "panic"
    /\ result' = <<"panic", msg>>
    /\ UNCHANGED <<map, history, op, arg, curs, ret, iter, size, n0, yielded>>

\* generate returns ret; an iterator's next wraps it in Some
Return ==
    /\ pc' = "ready"
    /\ result' = IF op \in {"sized_next", "infinite_next"} THEN <<"some", ret>> ELSE <<"vec", ret>>
    /\ yielded' = IF op \in {"sized_next", "infinite_next"} THEN yielded + 1 ELSE yielded
    /\ curs' = None
    /\ ret' = <<>>
    /\ UNCHANGED <<map, history, op, arg, iter, size, n0>>

Push(k) ==
    /\ Len(ret) < MaxRet
    /\ curs' = k
    /\ ret' = Append(ret, unwrap(k))
    /\ UNCHANGED <<map, history, pc, op, arg, result, iter, size, n0, yielded>>

\* one iteration of the loop of generate / generate_from_token
WalkStep ==
    /\ pc = "walk"
    /\ IF curs \notin DOMAIN map THEN Panic("index")
       ELSE LET dist == map[curs]
                sum == total(dist)
            IN  IF gen_range(0, sum) = {} THEN Panic("gen_range")
                ELSE \E cap \in gen_range(0, sum) : \E order \in Orders(DOMAIN dist) :
                        LET r == next(dist, order, cap)
                        IN  IF ~r.found THEN Panic("unreachable")
                            ELSE IF r.key = None THEN Return
                            ELSE Push(r.key)

(* ---------------------------- Chain::generate -------------------------- *)
Generate ==
    /\ pc = "ready"
    /\ pc' = "walk"
    /\ op' = "generate"
    /\ arg' = <<>>
    /\ curs' = None
    /\ ret' = <<>>
    /\ result' = NoResult
    /\ UNCHANGED <<map, history, iter, size, n0, yielded>>

(* ---------------------------- Chain::generate_from_token --------------- *)
\* generate_from_token without the contains_key test
GenerateFromToken_NoCheck(token) ==
    /\ pc = "ready"
    /\ op' = "generate_from_token"
    /\ arg' = <<token>>
    /\ pc' = "walk"
    /\ ret' = <<token>>
    /\ curs' = Some(token)
    /\ result' = NoResult
    /\ UNCHANGED <<map, history, iter, size, n0, yielded>>

\* generate_from_token starting from an empty ret
GenerateFromToken_NoSeed(token) ==
    /\ pc = "ready"
    /\ op' = "generate_from_token"
    /\ arg' = <<token>>
    /\ IF Some(token) \notin DOMAIN map
       THEN /\ result' = <<"vec", <<>>>>
            /\ UNCHANGED <<pc, curs, ret>>
       ELSE /\ pc' = "walk"
            /\ ret' = <<>>
            /\ curs' = Some(token)
            /\ result' = NoResult
    /\ UNCHANGED <<map, history, iter, size, n0, yielded>>

\* generate_from_token registering the token it does not find
GenerateFromToken_Insert(token) ==
    /\ pc = "ready"
    /\ op' = "generate_from_token"
    /\ arg' = <<token>>
    /\ IF Some(token) \notin DOMAIN map
       THEN /\ result' = <<"vec", <<>>>>
            /\ map' = map @@ (Some(token) :> EmptyMap)
            /\ UNCHANGED <<pc, curs, ret>>
       ELSE /\ pc' = "walk"
            /\ ret' = <<token>>
            /\ curs' = Some(token)
            /\ result' = NoResult
            /\ map' = map
    /\ UNCHANGED <<history, iter, size, n0, yielded>>

GenerateFromToken(token) ==
    /\ pc = "ready"
    /\ op' = "generate_from_token"
    /\ arg' = <<token>>
    /\ IF Some(token) \notin DOMAIN map
       THEN /\ result' = <<"vec", <<>>>>
            /\ UNCHANGED <<pc, curs, ret>>
       ELSE /\ pc' = "walk"
            /\ ret' = <<token>>
            /\ curs' = Some(token)
            /\ result' = NoResult
    /\ UNCHANGED <<map, history, iter, size, n0, yielded>>

(* ---------------------------- iterators -------------------------------- *)
IterFor(n) ==
    /\ pc = "ready"
    /\ iter = "none"
    /\ iter' = "sized"
    /\ size' = n
    /\ n0' = n
    /\ yielded' = 0
    /\ op' = "iter_for"
    /\ arg' = <<n>>
    /\ result' = NoResult
    /\ UNCHANGED <<map, history, pc, curs, ret>>

Iter ==
    /\ pc = "ready"
    /\ iter = "none"
    /\ iter' = "infinite"
    /\ size' = 0
    /\ n0' = 0
    /\ yielded' = 0
    /\ op' = "iter"
    /\ arg' = <<>>
    /\ result' = NoResult
    /\ UNCHANGED <<map, history, pc, curs, ret>>

\* SizedChainIterator::next
SizedNext ==
    /\ pc = "ready"
    /\ iter = "sized"
    /\ op' = "sized_next"
    /\ arg' = <<>>
    /\ IF size > 0
       THEN /\ size' = size - 1
            /\ pc' = "walk"
            /\ curs' = None
            /\ ret' = <<>>
            /\ result' = NoResult
       ELSE /\ result' = <<"none">>
            /\ UNCHANGED <<size, pc, curs, ret>>
    /\ UNCHANGED <<map, history, iter, n0, yielded>>

\* InfiniteChainIterator::next
InfiniteNext ==
    /\ pc = "ready"
    /\ iter = "infinite"
    /\ yielded < MaxPulls
    /\ op' = "infinite_next"
    /\ arg' = <<>>
    /\ pc' = "walk"
    /\ curs' = None
    /\ ret' = <<>>
    /\ result' = NoResult
    /\ UNCHANGED <<map, history, iter, size, n0, yielded>>

\* SizedChainIterator::size_hint, and the default size_hint of Iterator
\* for InfiniteChainIterator: (lower, upper) with upper an Option
size_hint(kind, sz) == IF kind = "sized" THEN <<sz, Some(sz)>> ELSE <<0, None>>

SizeHint ==
    /\ pc = "ready"
    /\ iter # "none"
    /\ op' = "size_hint"
    /\ arg' = <<>>
    /\ result' = <<"hint", size_hint(iter, size)>>
    /\ UNCHANGED <<map, history, pc, curs, ret, iter, size, n0, yielded>>

\* the iterator goes out of scope and its borrow of the chain ends
DropIter ==
    /\ pc = "ready"
    /\ iter # "none"
    /\ iter' = "none"
    /\ size' = 0
    /\ n0' = 0
    /\ yielded' = 0
    /\ op' = "drop"
    /\ arg' = <<>>
    /\ result' = NoResult
    /\ UNCHANGED <<map, history, pc, curs, ret>>

Next ==
    \/ \E tokens \in Inputs : Feed(tokens)
    \/ IsEmpty
    \/ Generate
    \/ \E token \in Tokens : GenerateFromToken(token)
    \/ WalkStep
    \/ \E n \in 0..MaxN : IterFor(n)
    \/ Iter
    \/ SizedNext
    \/ InfiniteNext
    \/ SizeHint
    \/ DropIter

Spec == Init /\ [][Next]_vars

(* ---------------------------- fair sampling ---------------------------- *)
\* the walk followed without end: beyond MaxRet tokens ret keeps its first
\* MaxRet tokens and the walk goes on
PushFair(k) ==
    /\ curs' = k
    /\ ret' = IF Len(ret) < MaxRet THEN Append(ret, unwrap(k)) ELSE ret
    /\ UNCHANGED <<map, history, pc, op, arg, result, iter, size, n0, yielded>>

WalkStepFair ==
    /\ pc = "walk"
    /\ IF curs \notin DOMAIN map THEN Panic("index")
       ELSE LET dist == map[curs]
                sum == total(dist)
            IN  IF gen_range(0, sum) = {} THEN Panic("gen_range")
                ELSE \E cap \in gen_range(0, sum) : \E order \in Orders(DOMAIN dist) :
                        LET r == next(dist, order, cap)
                        IN  IF ~r.found THEN Panic("unreachable")
                            ELSE IF r.key = None THEN Return
                            ELSE PushFair(r.key)

\* the step of the walk that samples the successor k
WalkTo(k) ==
    /\ WalkStepFair
    /\ IF k = None THEN pc' = "ready" ELSE (pc' = "walk" /\ curs' = k)

\* the chains walked without end are those fed from the tokens 1..MaxToken
NextFair ==
    \/ \E tokens \in SeqsUpTo(1..MaxToken, MaxLen) : Feed(tokens)
    \/ Generate
    \/ \E token \in 1..MaxToken : GenerateFromToken(token)
    \/ WalkStepFair

\* the loop always takes its next iteration, and a successor that can be
\* sampled again and again is eventually sampled
FairSpec ==
    /\ Init
    /\ [][NextFair]_vars
    /\ WF_vars(WalkStepFair)
    /\ \A k \in {None} \cup {Some(t) : t \in 1..MaxToken} : SF_vars(WalkTo(k))

(* ---------------------------- properties ------------------------------- *)
AllStates == {None} \cup {Some(t) : t \in Tokens}

\* the count recorded for the transition x -> y, 0 where none is stored
count(m, x, y) == IF x \in DOMAIN m /\ y \in DOMAIN m[x] THEN m[x][y] ELSE 0

\* [sentinel, s_1, ..., s_n, sentinel]
aug(s) == <<None>> \o [i \in 1..Len(s) |-> Some(s[i])] \o <<None>>

\* the number of positions at which x is directly followed by y
occ(a, x, y) == Cardinality({i \in 1..(Len(a) - 1) : a[i] = x /\ a[i + 1] = y})

FedTokens == {history[i][j] : <<i, j>> \in {q \in (1..Len(history)) \X (1..MaxLen + 1) : q[2] <= Len(history[q[1]])}}

\* every step from start along r and on to the sentinel is a recorded transition
IsPath(m, start, r) ==
    LET p == <<start>> \o [i \in 1..Len(r) |-> Some(r[i])] \o <<None>>
    IN  \A i \in 1..(Len(p) - 1) : count(m, p[i], p[i + 1]) > 0

ScenarioFed == history = <<(<<3, 5, 10>>), (<<5, 12>>)>>

Returned(name) == op = name /\ pc = "ready"

\* C1: a feed of a non-empty sequence s adds to every count(x -> y) exactly
\* the number of positions of [sentinel, s, sentinel] where x is followed by
\* y, and changes nothing else; no count decreases.
C1_FeedAddsPairCounts ==
    [][(history' # history /\ arg' # <<>>) =>
          /\ arg' = history'[Len(history')]
          /\ \A x, y \in AllStates :
                count(map', x, y) = count(map, x, y) + occ(aug(arg'), x, y)]_vars

\* the same non-empty sequence fed twice: its pair counts are doubled
C1_Witness ==
    /\ op = "feed"
    /\ Len(history) = 2
    /\ history[1] = history[2]
    /\ Len(history[1]) = 3
    /\ \A x, y \in AllStates : count(map, x, y) = 2 * occ(aug(history[1]), x, y)

\* C2: generate() on a chain whose start distribution has zero total count
\* returns the empty sequence and does not fail.
C2_GenerateOnEmptyReturnsEmpty ==
    (op = "generate" /\ total(map[None]) = 0) =>
        /\ pc # "panic"
        /\ pc = "ready" => result = <<"vec", <<>>>>

\* C3: whatever generate() returns is a path of recorded transitions from
\* the sentinel back to the sentinel made of tokens only; on the chain fed
\* [3,5,10] then [5,12] it is one of the four sequences of the test.
C3_GenerateReturnsRecordedPath ==
    Returned("generate") =>
        /\ result[1] = "vec"
        /\ \A i \in 1..Len(result[2]) : result[2][i] \in Tokens
        /\ IsPath(map, None, result[2])
        /\ ScenarioFed => result[2] \in {<<3, 5, 10>>, <<3, 5, 12>>, <<5, 10>>, <<5, 12>>}

C3_Witness ==
    /\ Returned("generate")
    /\ ScenarioFed
    /\ result = <<"vec", <<3, 5, 12>>>>

\* C4: generate_from_token(x) never fails; it returns the empty sequence
\* exactly when x occurs in no fed sequence, and otherwise a non-empty
\* sequence that starts with x.
C4_FromTokenEmptyIffNeverFed ==
    (op = "generate_from_token") =>
        /\ pc # "panic"
        /\ pc = "ready" =>
              /\ result[1] = "vec"
              /\ (result[2] = <<>>) <=> (arg[1] \notin FedTokens)
              /\ arg[1] \in FedTokens => (result[2] # <<>> /\ result[2][1] = arg[1])

C4_Witness ==
    /\ Returned("generate_from_token")
    /\ arg[1] \in FedTokens
    /\ Len(result[2]) >= 2
    /\ result[2][1] = arg[1]

\* C5: for a registered token x, generate_from_token(x) returns x followed
\* by a path of recorded transitions that ends at the sentinel; on the chain
\* fed [3,5,10] then [5,12], generate_from_token(5) is [5,10] or [5,12].
C5_FromTokenReturnsPathFromToken ==
    (Returned("generate_from_token") /\ Some(arg[1]) \in DOMAIN map) =>
        /\ result[2] # <<>>
        /\ result[2][1] = arg[1]
        /\ IsPath(map, Some(arg[1]), Tail(result[2]))
        /\ (ScenarioFed /\ arg[1] = 5) => result[2] \in {<<5, 10>>, <<5, 12>>}

C5_Witness ==
    /\ Returned("generate_from_token")
    /\ ScenarioFed
    /\ arg = <<5>>
    /\ result = <<"vec", <<5, 12>>>>

\* C6: is_empty() is true exactly when the start distribution has zero total
\* count, which is exactly when no non-empty sequence has been fed; the first
\* token of every fed sequence is a registered state.
C6_IsEmptyIffNothingFed ==
    /\ is_empty(map) <=> (total(map[None]) = 0)
    /\ is_empty(map) <=> (\A i \in 1..Len(history) : history[i] = <<>>)
    /\ \A i \in 1..Len(history) : history[i] # <<>> => Some(history[i][1]) \in DOMAIN map
    /\ Returned("is_empty") => result = <<"bool", total(map[None]) = 0>>

C6_Witness ==
    /\ Returned("is_empty")
    /\ result = <<"bool", FALSE>>
    /\ Len(history) = 1
    /\ Len(history[1]) = 3
    /\ Some(history[1][1]) \in DOMAIN map

\* C7: a feed of the empty sequence leaves the table, its states and every
\* count, as it was.
C7_EmptyFeedIsNoOp ==
    [][(history' = Append(history, <<>>)) => map' = map]_vars

\* an empty feed made on a chain that already holds counts
C7_Witness ==
    /\ op = "feed"
    /\ arg = <<>>
    /\ Len(history) = 2
    /\ Len(history[1]) = 2
    /\ ~is_empty(map)

\* C8: on every chain, the empty one included, the iterator of iter_for(n)
\* yields n sequences and is then exhausted for good; size_hint is always
\* the number still to be yielded.
C8_SizedIteratorYieldsExactlyN ==
    (iter = "sized") =>
        /\ op = "sized_next" => pc # "panic"
        /\ pc = "ready" => size = n0 - yielded
        /\ (Returned("sized_next") /\ yielded < n0) => result[1] = "some"
        /\ (Returned("sized_next") /\ result = <<"none">>) => yielded = n0
        /\ Returned("size_hint") => result = <<"hint", <<n0 - yielded, Some(n0 - yielded)>>>>

\* C9: a pull of the iterator of iter() always returns a generated sequence,
\* on every chain and after any number of pulls, and the iterator reports no
\* upper bound.
C9_InfiniteIteratorAlwaysYields ==
    (iter = "infinite") =>
        /\ op = "infinite_next" => pc # "panic"
        /\ Returned("infinite_next") => result[1] = "some"
        /\ Returned("size_hint") => result[2][2] = None

\* C10: only feed changes the table: a step that is not a feed leaves the
\* states and every count as they were.
C10_OnlyFeedChangesTable ==
    [][(history' = history) => map' = map]_vars

\* a lookup of an unknown token and a pull of an iterator, made on a chain
\* that holds counts, have left no trace in the table
C10_Witness ==
    /\ Returned("generate_from_token")
    /\ ~is_empty(map)
    /\ Some(arg[1]) \notin DOMAIN map
    /\ iter = "sized"
    /\ yielded = 1
    /\ Len(history) = 2
    /\ map = feed(feed(new, history[1]), history[2])
\* C11: after new() and after any feeds the key set of the table is closed
\* under succession: the sentinel has an entry, and so has every state that
\* is a key of some distribution.
C11_KeysClosedUnderSuccession ==
    /\ None \in DOMAIN map
    /\ \A x \in DOMAIN map : \A y \in DOMAIN map[x] : y \in DOMAIN map

\* two feeds have made tokens successors of tokens
C11_Witness ==
    /\ op = "feed"
    /\ Len(history) = 2
    /\ \E x \in DOMAIN map \ {None} : \E y \in DOMAIN map[x] \ {None} : x # y
    /\ Cardinality(DOMAIN map) >= 4

\* C12: no operation ever looks up a state that has no entry: neither the
\* window loop of feed nor a step of a walk indexes the table with an
\* unregistered key.
C12_NoLookupOfUnknownState ==
    /\ result # <<"panic", "index">>
    /\ pc = "walk" => curs \in DOMAIN map

\* a walk from a token has looked up several registered states and returned
C12_Witness ==
    /\ Returned("generate_from_token")
    /\ Len(history) = 2
    /\ Len(result[2]) >= 3
\* the sum of the counts of the first i entries in the given order
RECURSIVE prefix_sum(_, _, _)
prefix_sum(dist, order, i) == IF i = 0 THEN 0 ELSE prefix_sum(dist, order, i - 1) + dist[order[i]]

\* the sampler on one distribution: for every order and every draw the
\* result is the first entry whose cumulative count exceeds the draw, it has
\* a positive count, and each successor is selected by count-many draws
SamplerProportional(dist) ==
    \A order \in Orders(DOMAIN dist) :
       /\ \A r \in gen_range(0, total(dist)) :
             LET res == next(dist, order, r)
             IN  /\ res.found
                 /\ res.key \in DOMAIN dist
                 /\ dist[res.key] > 0
                 /\ \E i \in 1..Len(order) :
                       /\ order[i] = res.key
                       /\ prefix_sum(dist, order, i) > r
                       /\ \A j \in 1..(i - 1) : prefix_sum(dist, order, j) <= r
       /\ \A s \in DOMAIN dist :
             Cardinality({r \in gen_range(0, total(dist)) : next(dist, order, r).key = s}) = dist[s]

\* C13: on the distribution a walk is about to sample, when its total count
\* is > 0, for every draw r in [0, total) and every iteration order the
\* sampler returns the first entry whose cumulative count exceeds r, never
\* runs past the last entry, and selects each successor by exactly
\* count-many draws.
C13_SamplerProportionalToCount ==
    (pc = "walk" /\ curs \in DOMAIN map /\ total(map[curs]) > 0) => SamplerProportional(map[curs])

\* a walk stands on a state with two successors of different counts
C13_Witness ==
    /\ pc = "walk"
    /\ curs \in DOMAIN map
    /\ \E y, z \in DOMAIN map[curs] : map[curs][y] = 2 /\ map[curs][z] = 1
\* the states from which the sentinel is reached in at most n more steps
\* along transitions of positive count, S being those already found
RECURSIVE reaches_sentinel(_, _, _)
reaches_sentinel(m, S, n) ==
    IF n = 0 THEN S
    ELSE reaches_sentinel(m, S \cup {x \in DOMAIN m : \E y \in DOMAIN m[x] : m[x][y] > 0 /\ y \in S}, n - 1)

\* C14: under fair sampling every walk of generate() and of
\* generate_from_token(x) on a chain built by feeds comes to an end, and
\* from every registered token the sentinel is reachable through
\* transitions of positive count.
C14_WalkTerminates ==
    /\ [](\A x \in DOMAIN map : x # None => x \in reaches_sentinel(map, {None}, Cardinality(DOMAIN map)))
    /\ (pc = "walk") ~> (pc # "walk")

\* a walk went round a cycle of the table and came back to the sentinel
C14_Witness ==
    /\ Returned("generate")
    /\ Len(history) = 1
    /\ history[1] = <<1, 1>>
    /\ result = <<"vec", <<1, 1, 1>>>>
\* C15: the successor returned for a draw r is fixed by the states and
\* counts of the table: whatever the order in which the entries are
\* iterated, the same draw selects the same successor.
C15_SameDrawSameSuccessor ==
    (pc = "walk" /\ curs \in DOMAIN map) =>
        \A cap \in gen_range(0, total(map[curs])) :
           \A o1, o2 \in Orders(DOMAIN map[curs]) :
              next(map[curs], o1, cap).key = next(map[curs], o2, cap).key

\* C16: after any feeds every registered token has a distribution of total
\* count >= 1 and no stored count is 0, so generate_from_token on a
\* registered token never meets a distribution without successors.
C16_TokenStatesHaveSuccessors ==
    /\ \A x \in DOMAIN map : x # None => total(map[x]) >= 1
    /\ \A x \in DOMAIN map : \A y \in DOMAIN map[x] : map[x][y] >= 1
    /\ op = "generate_from_token" => pc # "panic"

\* a walk from a token has sampled its way through registered tokens
C16_Witness ==
    /\ op = "generate_from_token"
    /\ pc = "walk"
    /\ Len(ret) = 3
    /\ Cardinality(DOMAIN map[curs]) = 2

\* the sum over the states of S of the counts of their transitions into x
RECURSIVE sum_in(_, _, _)
sum_in(m, S, x) ==
    IF S = {} THEN 0
    ELSE LET y == CHOOSE z \in S : TRUE
         IN  count(m, y, x) + sum_in(m, S \ {y}, x)

sum_out(m, x) == IF x \in DOMAIN m THEN total(m[x]) ELSE 0

occurrences(t) ==
    Cardinality({q \in (1..Len(history)) \X (1..MaxLen + 1) :
                    q[2] <= Len(history[q[1]]) /\ history[q[1]][q[2]] = t})

\* C17: after any feeds, for every state the sum of its outgoing counts
\* equals the sum of the counts of the transitions into it; for a token it
\* is the number of its occurrences in the fed sequences, for the sentinel
\* the number of non-empty sequences fed.
C17_CountsAreFlowBalanced ==
    (op \in {"new", "feed"}) =>
        /\ \A x \in AllStates : sum_out(map, x) = sum_in(map, DOMAIN map, x)
        /\ \A t \in Tokens : sum_out(map, Some(t)) = occurrences(t)
        /\ sum_out(map, None) = Cardinality({i \in 1..Len(history) : history[i] # <<>>})

\* two feeds in which a token occurs three times
C17_Witness ==
    /\ op = "feed"
    /\ Len(history) = 2
    /\ \E t \in Tokens : occurrences(t) = 3 /\ sum_out(map, Some(t)) = 3
    /\ sum_out(map, None) = 2

\* the table after the feeds of h, made in order on a new chain
RECURSIVE replay(_)
replay(h) == IF h = <<>> THEN new ELSE feed(replay(SubSeq(h, 1, Len(h) - 1)), h[Len(h)])

\* C18: from every chain state, feed(s1) then feed(s2) gives the same table
\* as feed(s2) then feed(s1).  The chain state is the table before the last
\* feed, s1 the sequence just fed and s2 any sequence.
C18_FeedOrderIndependent ==
    (op = "feed" /\ pc = "ready") =>
        LET prev == replay(SubSeq(history, 1, Len(history) - 1))
            s1 == history[Len(history)]
        IN  /\ map = feed(prev, s1)
            /\ \A s2 \in Inputs : feed(map, s2) = feed(feed(prev, s2), s1)

\* a sequence fed on a chain that already holds counts, sharing a token
C18_Witness ==
    /\ op = "feed"
    /\ Len(history) = 2
    /\ history[1] = <<1, 2>>
    /\ history[2] = <<2, 1, 1>>
    /\ map = feed(feed(new, <<2, 1, 1>>), <<1, 2>>)

\* C19: the sentinel is never its own successor, so on a chain fed at least
\* one non-empty sequence generate() returns a sequence of length >= 1 that
\* starts with the first token of a fed sequence and ends with the last
\* token of a fed sequence.
C19_GenerateNonEmptyOnFedChain ==
    /\ count(map, None, None) = 0
    /\ (Returned("generate") /\ \E i \in 1..Len(history) : history[i] # <<>>) =>
          /\ Len(result[2]) >= 1
          /\ \E i \in 1..Len(history) :
                history[i] # <<>> /\ result[2][1] = history[i][1]
          /\ \E i \in 1..Len(history) :
                history[i] # <<>> /\ result[2][Len(result[2])] = history[i][Len(history[i])]

\* generate returned a sequence that begins as one fed sequence and ends
\* as the other
C19_Witness ==
    /\ Returned("generate")
    /\ Len(history) = 2
    /\ result[1] = "vec"
    /\ Len(result[2]) >= 2
    /\ result[2][1] = history[1][1]
    /\ result[2][1] # history[2][1]
    /\ result[2][Len(result[2])] = history[2][Len(history[2])]
    /\ result[2][Len(result[2])] # history[1][Len(history[1])]
====
